---- MODULE Spec2Model ----
(***************************************************************************)
(* Model of O365/account.py: the Account facade.  One action per method;   *)
(* the constructor is an action too, so that its argument handling can be  *)
(* checked.  Collaborators (Connection, Protocol, the sub-clients, the     *)
(* token backend) appear only through the calls Account makes on them.     *)
(***************************************************************************)
EXTENDS Naturals, Sequences, FiniteSets, TLC

VARIABLES
    phase,          \* "new" before __init__, "ready" after it returned, "failed" after it raised
    args,           \* the arguments __init__ was called with
    protocol,       \* self.protocol
    con,            \* self.con
    conKwargs,      \* the kwargs Account handed to Connection(...)
    main_resource,  \* self.main_resource
    tokenMem,       \* self.con.token_backend.token
    tokenStore,     \* what token_backend.get_token() loads
    lastOp,         \* name of the last method called
    callArgs,       \* its arguments
    raised,         \* the exception it raised, or "none"
    result,         \* what it returned
    extCall,        \* the external authentication call it made, if any
    returned        \* identities of the sub-clients handed out so far

vars == <<phase, args, protocol, con, conKwargs, main_resource, tokenMem,
          tokenStore, lastOp, callArgs, raised, result, extCall, returned>>

account == <<protocol, con, main_resource>>

-----------------------------------------------------------------------------
(* Bounds *)

MaxClients == 2

-----------------------------------------------------------------------------
(* Python values *)

\* None, where a string is expected
None == "<None>"

\* bool(s) of a str-or-None value
TruthyStr(s) == s # None /\ s # ""

\* a list-or-None value (scopes)
NoneList == [isNone |-> TRUE, items |-> <<>>]
List(xs) == [isNone |-> FALSE, items |-> xs]
TruthyList(l) == ~l.isNone /\ Len(l.items) > 0

\* dict.get(key, default)
Get(d, key, default) == IF key \in DOMAIN d THEN d[key] ELSE default

\* d[key] = value
Put(d, key, value) == [k \in DOMAIN d \cup {key} |-> IF k = key THEN value ELSE d[k]]

\* the classes that take part, with their direct base class
Base(c) ==
    CASE c = "MSGraphProtocol" -> "Protocol"
      [] c = "MSOffice365Protocol" -> "Protocol"
      [] c = "CustomGraphProtocol" -> "MSGraphProtocol"
      [] OTHER -> "object"

RECURSIVE IsSubclass(_, _)
IsSubclass(c, d) ==
    IF c = d THEN TRUE
    ELSE IF c = "object" THEN FALSE
    ELSE IsSubclass(Base(c), d)

\* a Python object passed as 'protocol': None, a class, or an instance
NoneObj == [kind |-> "None", cls |-> "NoneType", default_resource |-> None, truthy |-> FALSE]
ClassObj(c) == [kind |-> "type", cls |-> c, default_resource |-> None, truthy |-> TRUE]
Instance(c, dr, t) == [kind |-> "obj", cls |-> c, default_resource |-> dr, truthy |-> t]

\* isinstance(o, type)
IsType(o) == o.kind = "type"

\* isinstance(o, c) for a class c other than type
IsInstance(o, c) == o.kind = "obj" /\ IsSubclass(o.cls, c)

\* bool(o)
Truthy(o) == o.truthy

-----------------------------------------------------------------------------
(* Collaborators, as far as Account uses them *)

\* O365.connection.ME_RESOURCE
ME_RESOURCE == "me"

\* Protocol.protocol_scope_prefix of the two stock protocols
ScopePrefix(cls) ==
    IF IsSubclass(cls, "MSGraphProtocol") THEN "https://graph.microsoft.com/"
    ELSE "https://outlook.office.com/"

\* protocol.prefix_scope(scope)
prefix_scope(proto, scope) == ScopePrefix(proto.cls) \o scope

\* cls(default_resource=dr, **kwargs): the instances the call can yield.  A
\* Protocol class keeps the resource it is given; an empty one may be replaced
\* by ME_RESOURCE.  Any other class that accepts the keywords (dict) yields a
\* non-empty, hence truthy, instance of itself.
Instantiate(cls, dr) ==
    IF IsSubclass(cls, "Protocol")
    THEN {Instance(cls, d, TRUE) : d \in (IF TruthyStr(dr) THEN {dr} ELSE {dr, ME_RESOURCE})}
    ELSE {Instance(cls, None, TRUE)}

\* Connection(credentials, **kwargs): the attributes Account reads later
NoConnection ==
    [auth |-> <<>>, auth_flow_type |-> None, scopes |-> NoneList, token_backend |-> None]
Connection(credentials, kwargs) ==
    [auth |-> credentials,
     auth_flow_type |-> Get(kwargs, "auth_flow_type", "web"),
     scopes |-> Get(kwargs, "scopes", NoneList),
     token_backend |-> "connection_backend"]

\* a Token, or None
NoToken == [present |-> FALSE, is_expired |-> FALSE]
Token(expired) == [present |-> TRUE, is_expired |-> expired]

\* bool(token): None is falsy, a Token object is truthy
TruthyToken(t) == t.present

-----------------------------------------------------------------------------
(* Account.__init__ *)

\* protocol = protocol or MSGraphProtocol
DefaultProtocol(p) == IF Truthy(p) THEN p ELSE ClassObj("MSGraphProtocol")

\* kwargs.get('auth_flow_type', 'web') == 'backend'
IsBackendFlow(kwargs) == Get(kwargs, "auth_flow_type", "web") = "backend"

\* scopes = kwargs.get('scopes', [])
BackendScopes(kwargs) == Get(kwargs, "scopes", List(<<>>))

\* slip: the operands of 'or' swapped
ResolveMainResourceSwapped(mr, proto) ==
    IF TruthyStr(proto.default_resource) THEN proto.default_resource ELSE mr

\* self.main_resource = main_resource or self.protocol.default_resource
ResolveMainResource(mr, proto) == IF TruthyStr(mr) THEN mr ELSE proto.default_resource

\* slip: the resource is not blanked on the backend flow
BackendResourceKept == ME_RESOURCE

\* the value set on the backend flow: self.protocol.default_resource = ''; main_resource = ''
BackendResource == ""

NoCall ==
    [fn |-> "none", auth |-> <<>>, scopes |-> NoneList, protocol |-> NoneObj,
     token_backend |-> None, authorization_url |-> None, ret |-> FALSE]
NoClient ==
    [id |-> 0, cls |-> "none", parent |-> "none", main_resource |-> None,
     name |-> None, is_draft |-> FALSE]
NoResult == [kind |-> "none", bool |-> FALSE, client |-> NoClient]
NoArgs ==
    [resource |-> None, address_book |-> <<>>, scopes |-> NoneList, kwargs |-> <<>>]

\* __init__ raises exc after having assigned self.protocol = proto
InitRaises(proto, exc) ==
    /\ phase' = "failed"
    /\ protocol' = proto
    /\ raised' = exc
    /\ UNCHANGED <<con, conKwargs, main_resource>>

\* __init__ runs to its end
InitReturns(credentials, proto, kwargs, mr) ==
    /\ phase' = "ready"
    /\ protocol' = proto
    /\ con' = Connection(credentials, kwargs)
    /\ conKwargs' = kwargs
    /\ main_resource' = ResolveMainResource(mr, proto)
    /\ raised' = "none"

Account_init(credentials, p, mr, kwargs) ==
    /\ phase = "new"
    /\ args' = [credentials |-> credentials, protocol |-> p, main_resource |-> mr,
                kwargs |-> kwargs]
    /\ lastOp' = "__init__"
    /\ UNCHANGED <<tokenMem, tokenStore, callArgs, result, extCall, returned>>
    /\ LET p1 == DefaultProtocol(p) IN
       \E proto \in (IF IsType(p1) THEN Instantiate(p1.cls, mr) ELSE {p1}) :
          IF ~IsInstance(proto, "Protocol")
          THEN InitRaises(proto, "ValueError")
          ELSE IF IsBackendFlow(kwargs)
          THEN LET scopes == BackendScopes(kwargs) IN
               IF TruthyList(scopes)
               THEN InitReturns(credentials,
                                [proto EXCEPT !.default_resource = BackendResource],
                                kwargs, BackendResource)
               ELSE IF scopes.isNone
               THEN \* None.append(...)
                    InitRaises(proto, "AttributeError")
               ELSE InitReturns(credentials,
                                [proto EXCEPT !.default_resource = BackendResource],
                                Put(kwargs, "scopes",
                                    List(Append(scopes.items,
                                                prefix_scope(proto, ".default")))),
                                BackendResource)
          ELSE InitReturns(credentials, proto, kwargs, mr)

-----------------------------------------------------------------------------
(* Account.is_authenticated *)

\* token_backend.get_token(): the stored token, which the backend also keeps
\* in memory when there is one
GetToken == tokenStore
MemAfterGetToken == IF tokenStore.present THEN tokenStore ELSE tokenMem

\* token = self.con.token_backend.token; if not token: token = ...get_token()
TokenInUse(mem) == IF ~TruthyToken(mem) THEN GetToken ELSE mem

\* slip: expiry not looked at
TokenIsPresent(token) == token.present

\* return token is not None and not token.is_expired
TokenIsFresh(token) == token.present /\ ~token.is_expired

BoolResult(b) == [kind |-> "bool", bool |-> b, client |-> NoClient]

is_authenticated ==
    /\ phase = "ready"
    /\ lastOp' = "is_authenticated"
    /\ callArgs' = NoArgs
    /\ raised' = "none"
    /\ result' = BoolResult(TokenIsFresh(TokenInUse(tokenMem)))
    /\ tokenMem' = IF ~TruthyToken(tokenMem) THEN MemAfterGetToken ELSE tokenMem
    /\ extCall' = NoCall
    /\ UNCHANGED <<phase, args, protocol, con, conKwargs, main_resource, tokenStore,
                   returned>>

-----------------------------------------------------------------------------
(* Account.authenticate *)

\* slip: 'elif ... == backend' written as a plain 'else'
AuthBranchNoCheck(flow) ==
    IF flow = "web" THEN "oauth_authentication_flow" ELSE "request_token"

\* the branch taken on self.con.auth_flow_type
AuthBranch(flow) ==
    IF flow = "web" THEN "oauth_authentication_flow"
    ELSE IF flow = "backend" THEN "request_token"
    ELSE "ValueError"

\* slip: no fallback to the connection's scopes
WebScopesCallerOnly(scopes, conScopes) == scopes

\* scopes = scopes or self.con.scopes
WebScopes(scopes, conScopes) == IF TruthyList(scopes) THEN scopes ELSE conScopes

\* kwargs.setdefault(key, value)
SetDefault(kwargs, key, value) == IF key \in DOMAIN kwargs THEN kwargs ELSE Put(kwargs, key, value)

\* oauth_authentication_flow(*self.con.auth, scopes=scopes, protocol=self.protocol, **kwargs)
OAuthCall(scopes, kwargs, ok) ==
    [fn |-> "oauth_authentication_flow", auth |-> con.auth,
     scopes |-> WebScopes(scopes, con.scopes), protocol |-> protocol,
     token_backend |-> SetDefault(kwargs, "token_backend", con.token_backend)["token_backend"],
     authorization_url |-> None, ret |-> ok]

\* self.con.request_token(None, requested_scopes=scopes)
RequestTokenCall(scopes, ok) ==
    [fn |-> "request_token", auth |-> <<>>, scopes |-> scopes, protocol |-> NoneObj,
     token_backend |-> None, authorization_url |-> None, ret |-> ok]

\* a flow that succeeds leaves a fresh token in the backend it worked on
FlowStoresToken(call) ==
    /\ call.ret
    /\ \/ call.fn = "request_token"
       \/ call.fn = "oauth_authentication_flow" /\ call.token_backend = con.token_backend

authenticate(scopes, kwargs) ==
    /\ phase = "ready"
    /\ lastOp' = "authenticate"
    /\ callArgs' = [NoArgs EXCEPT !.scopes = scopes, !.kwargs = kwargs]
    /\ UNCHANGED <<phase, args, protocol, con, conKwargs, main_resource, returned>>
    /\ LET branch == AuthBranch(con.auth_flow_type) IN
       IF branch = "ValueError"
       THEN /\ raised' = "ValueError"
            /\ result' = NoResult
            /\ extCall' = NoCall
            /\ UNCHANGED <<tokenMem, tokenStore>>
       ELSE \E ok \in BOOLEAN :
            LET call == IF branch = "oauth_authentication_flow"
                        THEN OAuthCall(scopes, kwargs, ok)
                        ELSE RequestTokenCall(scopes, ok)
            IN /\ raised' = "none"
               /\ extCall' = call
               /\ result' = BoolResult(call.ret)
               /\ IF FlowStoresToken(call)
                  THEN tokenMem' = Token(FALSE) /\ tokenStore' = Token(FALSE)
                  ELSE UNCHANGED <<tokenMem, tokenStore>>

-----------------------------------------------------------------------------
(* The factory methods *)

LowerChar(c) ==
    CASE c = "P" -> "p" [] c = "E" -> "e" [] c = "R" -> "r" [] c = "S" -> "s"
      [] c = "O" -> "o" [] c = "N" -> "n" [] c = "A" -> "a" [] c = "L" -> "l"
      [] c = "G" -> "g"
      [] OTHER -> c

\* slip: the comparison made on the argument as given
LowerOmitted(s) == s

\* str.lower()
Lower(s) == [i \in 1..Len(s) |-> LowerChar(s[i])]

\* slip: one cached sub-client handed out again
ReusedId == IF returned = {} THEN Cardinality(returned) + 1 ELSE CHOOSE i \in returned : TRUE

\* the identity of the next object the interpreter allocates
NextId == Cardinality(returned) + 1

\* the constructor call SubClient(parent=self, main_resource=resource, ...)
NewClient(cls, resource, name, is_draft) ==
    [id |-> NextId, cls |-> cls, parent |-> "self", main_resource |-> resource,
     name |-> name, is_draft |-> is_draft]

Returns(client) ==
    /\ Cardinality(returned) < MaxClients
    /\ raised' = "none"
    /\ result' = [kind |-> "client", bool |-> FALSE, client |-> client]
    /\ returned' = returned \cup {client.id}

Raises(exc) ==
    /\ raised' = exc
    /\ result' = NoResult
    /\ UNCHANGED returned

Called(op, a) ==
    /\ phase = "ready"
    /\ lastOp' = op
    /\ callArgs' = a
    /\ extCall' = NoCall
    /\ UNCHANGED <<phase, args, protocol, con, conKwargs, main_resource, tokenMem,
                   tokenStore>>

new_message(resource) ==
    /\ Called("new_message", [NoArgs EXCEPT !.resource = resource])
    /\ Returns(NewClient("Message", resource, None, TRUE))

mailbox(resource) ==
    /\ Called("mailbox", [NoArgs EXCEPT !.resource = resource])
    /\ Returns(NewClient("MailBox", resource, "MailBox", FALSE))

\* the branch taken on address_book.lower()
AddressBookBranch(name) ==
    IF Lower(name) = <<"p", "e", "r", "s", "o", "n", "a", "l">> THEN "AddressBook"
    ELSE IF Lower(name) = <<"g", "a", "l">> THEN "GlobalAddressList"
    ELSE "RuntimeError"

address_book(resource, name) ==
    /\ Called("address_book", [NoArgs EXCEPT !.resource = resource, !.address_book = name])
    /\ LET branch == AddressBookBranch(name) IN
       IF branch = "AddressBook"
       THEN Returns(NewClient("AddressBook", resource, "Personal Address Book", FALSE))
       ELSE IF branch = "GlobalAddressList"
       THEN Returns(NewClient("GlobalAddressList", None, None, FALSE))
       ELSE Raises("RuntimeError")

schedule(resource) ==
    /\ Called("schedule", [NoArgs EXCEPT !.resource = resource])
    /\ Returns(NewClient("Schedule", resource, None, FALSE))

\* slip: the check made against the base class
OnAnyProtocol(proto) == IsInstance(proto, "Protocol")

\* isinstance(self.protocol, MSGraphProtocol)
OnGraph(proto) == IsInstance(proto, "MSGraphProtocol")

storage(resource) ==
    /\ Called("storage", [NoArgs EXCEPT !.resource = resource])
    /\ IF ~OnGraph(protocol)
       THEN Raises("RuntimeError")
       ELSE Returns(NewClient("Storage", resource, None, FALSE))

sharepoint(resource) ==
    /\ Called("sharepoint", [NoArgs EXCEPT !.resource = resource])
    /\ IF ~OnGraph(protocol)
       THEN Raises("RuntimeError")
       ELSE Returns(NewClient("Sharepoint", resource, None, FALSE))

planner(resource) ==
    /\ Called("planner", [NoArgs EXCEPT !.resource = resource])
    /\ IF ~OnGraph(protocol)
       THEN Raises("RuntimeError")
       ELSE Returns(NewClient("Planner", resource, None, FALSE))

-----------------------------------------------------------------------------
(* Inputs *)

Credentials == {<<"client_id", "client_secret">>}

Resources == {None, "", "users/x"}

\* 'protocol': omitted or None, a class, or an already-built object
ProtocolArgs ==
    {NoneObj,
     ClassObj("MSGraphProtocol"), ClassObj("MSOffice365Protocol"), ClassObj("dict"),
     Instance("MSGraphProtocol", "me", TRUE),
     Instance("CustomGraphProtocol", "me", TRUE),
     Instance("MSOffice365Protocol", "me", TRUE),
     Instance("str", None, TRUE),      \* 'graph'
     Instance("int", None, FALSE)}     \* 0

Absent == "<absent>"
FlowArgs == {Absent, "web", "backend", "device"}
ScopesArgs == {NoneList, List(<<>>), List(<<"mail">>)}

Kwargs(flow, hasScopes, scopes) ==
    [k \in (IF flow # Absent THEN {"auth_flow_type"} ELSE {}) \cup
           (IF hasScopes THEN {"scopes"} ELSE {})
       |-> IF k = "auth_flow_type" THEN flow ELSE scopes]

InitKwargs ==
    {Kwargs(f, FALSE, NoneList) : f \in FlowArgs} \cup
    {Kwargs(f, TRUE, s) : f \in FlowArgs, s \in ScopesArgs}

Tokens == {NoToken, Token(FALSE), Token(TRUE)}

Init ==
    /\ phase = "new"
    /\ args = [credentials |-> <<>>, protocol |-> NoneObj, main_resource |-> None,
               kwargs |-> <<>>]
    /\ protocol = NoneObj
    /\ con = NoConnection
    /\ conKwargs = <<>>
    /\ main_resource = None
    /\ tokenMem \in Tokens
    /\ tokenStore \in Tokens
    /\ lastOp = "none"
    /\ callArgs = NoArgs
    /\ raised = "none"
    /\ result = NoResult
    /\ extCall = NoCall
    /\ returned = {}

ConstructFrom(protocols, resources, kwargss) ==
    \E c \in Credentials, p \in protocols, mr \in resources, kw \in kwargss :
        Account_init(c, p, mr, kw)

\* every way of calling the constructor
Construct == ConstructFrom(ProtocolArgs, Resources, InitKwargs)

\* the accounts the methods are exercised on: Graph by default, a Graph
\* subclass and a non-Graph protocol, on each flow type
MethodProtocols ==
    {NoneObj, Instance("CustomGraphProtocol", "me", TRUE),
     Instance("MSOffice365Protocol", "me", TRUE)}
MethodResources == {None, "users/x"}
MethodKwargs ==
    {Kwargs(f, FALSE, NoneList) : f \in {Absent, "backend", "device"}} \cup
    {Kwargs(f, TRUE, List(<<"mail">>)) : f \in {Absent, "backend", "device"}}

Setup == ConstructFrom(MethodProtocols, MethodResources, MethodKwargs)

\* scopes=... of authenticate
AuthScopes == {NoneList, List(<<>>), List(<<"calendar">>)}

\* **kwargs of authenticate: nothing, token_backend=<a backend>, token_backend=None
AuthKwargs ==
    {<<>>, [k \in {"token_backend"} |-> "caller_backend"], [k \in {"token_backend"} |-> None]}

\* address_book=...
AddressBookNames ==
    {<<"p", "e", "r", "s", "o", "n", "a", "l">>,
     <<"P", "e", "r", "s", "o", "n", "a", "l">>,
     <<"g", "a", "l">>,
     <<"G", "A", "L">>,
     <<"s", "h", "a", "r", "e", "d">>,
     <<>>}

Authenticate == \E s \in AuthScopes, kw \in AuthKwargs : authenticate(s, kw)
NewMessage == \E r \in MethodResources : new_message(r)
MailBox == \E r \in MethodResources : mailbox(r)
AddressBook == \E r \in MethodResources, n \in AddressBookNames : address_book(r, n)
Schedule == \E r \in MethodResources : schedule(r)
Storage == \E r \in MethodResources : storage(r)
Sharepoint == \E r \in MethodResources : sharepoint(r)
Planner == \E r \in MethodResources : planner(r)

Next ==
    \/ Setup
    \/ is_authenticated
    \/ Authenticate
    \/ NewMessage
    \/ MailBox
    \/ AddressBook
    \/ Schedule
    \/ Storage
    \/ Sharepoint
    \/ Planner

Spec == Init /\ [][Next]_vars

\* construction alone, over every way of calling the constructor
NextInit == Construct
SpecInit == Init /\ [][NextInit]_vars

-----------------------------------------------------------------------------
(* Vocabulary of the properties *)

ProtocolClasses == {"Protocol", "MSGraphProtocol", "MSOffice365Protocol", "CustomGraphProtocol"}
GraphClasses == {"MSGraphProtocol", "CustomGraphProtocol"}

Constructing == lastOp = "__init__"
ArgFlow == IF "auth_flow_type" \in DOMAIN args.kwargs THEN args.kwargs["auth_flow_type"] ELSE "web"
ArgHasScopes == "scopes" \in DOMAIN args.kwargs
ArgNoScopes ==
    \/ ~ArgHasScopes
    \/ args.kwargs["scopes"].isNone
    \/ args.kwargs["scopes"].items = <<>>
ArgResourceGiven == args.main_resource # None /\ args.main_resource # ""

\* the two spellings of a letter
CasePairs ==
    {<<"P", "p">>, <<"E", "e">>, <<"R", "r">>, <<"S", "s">>, <<"O", "o">>, <<"N", "n">>,
     <<"A", "a">>, <<"L", "l">>, <<"G", "g">>}
SameLetter(c, d) == c = d \/ <<c, d>> \in CasePairs \/ <<d, c>> \in CasePairs
SameIgnoringCase(a, b) ==
    /\ Len(a) = Len(b)
    /\ \A i \in 1..Len(a) : SameLetter(a[i], b[i])
Personal == <<"p", "e", "r", "s", "o", "n", "a", "l">>
Gal == <<"g", "a", "l">>

-----------------------------------------------------------------------------
(* Properties *)

\* C1: constructing raises ValueError whenever the 'protocol' argument, an
\* instance or a class, is not (an instance of) a Protocol; with 'protocol'
\* omitted or None the Graph protocol is used and no error is raised.
C1_ValueErrorOnNonProtocol ==
    Constructing =>
        /\ (args.protocol.kind # "None" /\ args.protocol.cls \notin ProtocolClasses)
               => raised = "ValueError"
        /\ args.protocol.kind = "None"
               => (protocol.cls = "MSGraphProtocol" /\ raised = "none")

\* C2: after a successful construction on the backend flow both
\* account.main_resource and account.protocol.default_resource are ''.
C2_BackendBlanksResource ==
    (phase = "ready" /\ ArgFlow = "backend")
        => (main_resource = "" /\ protocol.default_resource = "")

C2_Witness ==
    /\ phase = "ready"
    /\ ArgFlow = "backend"
    /\ args.main_resource = "users/x"
    /\ args.protocol.kind = "obj"
    /\ args.protocol.default_resource = "me"

\* C3: on the backend flow with no scopes supplied (absent, None or an empty
\* list) the Connection gets exactly the one prefixed '.default' scope; in
\* every other case it gets the scopes the caller supplied.
C3_DefaultScope ==
    (Constructing /\ raised # "ValueError") =>
        /\ phase = "ready"
        /\ IF ArgFlow = "backend" /\ ArgNoScopes
           THEN /\ "scopes" \in DOMAIN conKwargs
                /\ conKwargs["scopes"] = List(<<ScopePrefix(protocol.cls) \o ".default">>)
           ELSE /\ ("scopes" \in DOMAIN conKwargs) = ArgHasScopes
                /\ ArgHasScopes => conKwargs["scopes"] = args.kwargs["scopes"]

\* C4: authenticate raises ValueError whenever the connection's
\* auth_flow_type is neither 'web' nor 'backend', and then calls neither flow.
C4_UnknownFlowRaises ==
    (lastOp = "authenticate" /\ con.auth_flow_type \notin {"web", "backend"})
        => (raised = "ValueError" /\ extCall.fn = "none" /\ result.kind = "none")

C4_Witness ==
    /\ lastOp = "authenticate"
    /\ con.auth_flow_type = "device"
    /\ raised = "ValueError"

\* C5: storage, sharepoint and planner raise RuntimeError, building nothing,
\* exactly when the protocol is not a Graph protocol, and otherwise return a
\* sub-client of their kind with this account as parent and the 'resource'
\* argument as main_resource; new_message, mailbox and schedule never raise,
\* and address_book raises for its name only.
C5_GraphOnlyFeatures ==
    /\ lastOp \in {"storage", "sharepoint", "planner"} =>
          IF protocol.cls \notin GraphClasses
          THEN raised = "RuntimeError" /\ result.kind = "none"
          ELSE /\ raised = "none"
               /\ result.kind = "client"
               /\ result.client.cls = (CASE lastOp = "storage" -> "Storage"
                                         [] lastOp = "sharepoint" -> "Sharepoint"
                                         [] lastOp = "planner" -> "Planner")
               /\ result.client.parent = "self"
               /\ result.client.main_resource = callArgs.resource
    /\ lastOp \in {"new_message", "mailbox", "schedule"} =>
          (raised = "none" /\ result.kind = "client")
    /\ (lastOp = "address_book" /\ raised # "none") =>
          (~SameIgnoringCase(callArgs.address_book, Personal)
           /\ ~SameIgnoringCase(callArgs.address_book, Gal))

C5_Witness ==
    /\ lastOp = "sharepoint"
    /\ protocol.cls = "CustomGraphProtocol"
    /\ result.kind = "client"
    /\ result.client.main_resource = "users/x"

C5_WitnessRaise ==
    /\ lastOp = "planner"
    /\ protocol.cls = "MSOffice365Protocol"
    /\ raised = "RuntimeError"

\* C6: is_authenticated returns True exactly when the token in use, the
\* in-memory one or else the one get_token loads, exists and is not expired.
C6_IsAuthenticated ==
    [][lastOp' = "is_authenticated" =>
          /\ raised' = "none"
          /\ result'.kind = "bool"
          /\ result'.bool = (IF tokenMem.present
                             THEN ~tokenMem.is_expired
                             ELSE tokenStore.present /\ ~tokenStore.is_expired)]_vars

C6_Witness ==
    /\ lastOp = "is_authenticated"
    /\ result.kind = "bool"
    /\ ~result.bool
    /\ tokenMem = Token(TRUE)
    /\ tokenStore = Token(FALSE)

\* C7: authenticate runs exactly one flow and returns its result: on 'web'
\* the OAuth flow with the account's credentials and protocol, the caller's
\* scopes or else the connection's, and the connection's token backend unless
\* the caller passed one; on 'backend' request_token with the caller's scopes.
C7_AuthenticateDispatch ==
    (lastOp = "authenticate" /\ con.auth_flow_type \in {"web", "backend"}) =>
        /\ raised = "none"
        /\ result.kind = "bool"
        /\ result.bool = extCall.ret
        /\ IF con.auth_flow_type = "web"
           THEN /\ extCall.fn = "oauth_authentication_flow"
                /\ extCall.auth = args.credentials
                /\ extCall.protocol = protocol
                /\ extCall.scopes =
                      (IF callArgs.scopes.isNone \/ callArgs.scopes.items = <<>>
                       THEN con.scopes ELSE callArgs.scopes)
                /\ extCall.token_backend =
                      (IF "token_backend" \in DOMAIN callArgs.kwargs
                       THEN callArgs.kwargs["token_backend"] ELSE con.token_backend)
           ELSE /\ extCall.fn = "request_token"
                /\ extCall.authorization_url = None
                /\ extCall.scopes = callArgs.scopes

C7_Witness ==
    /\ lastOp = "authenticate"
    /\ con.auth_flow_type = "web"
    /\ callArgs.scopes = List(<<>>)
    /\ extCall.scopes = List(<<"mail">>)
    /\ extCall.token_backend = "caller_backend"

C7_WitnessBackend ==
    /\ lastOp = "authenticate"
    /\ con.auth_flow_type = "backend"
    /\ extCall.fn = "request_token"
    /\ extCall.scopes = NoneList
    /\ result.bool

\* C8: address_book picks by name ignoring case: 'personal' an AddressBook
\* with this account as parent and the given resource, 'gal' a
\* GlobalAddressList with this account as parent and no resource, anything
\* else a RuntimeError and no sub-client.
C8_AddressBookByName ==
    lastOp = "address_book" =>
        IF SameIgnoringCase(callArgs.address_book, Personal)
        THEN /\ raised = "none"
             /\ result.kind = "client"
             /\ result.client.cls = "AddressBook"
             /\ result.client.parent = "self"
             /\ result.client.main_resource = callArgs.resource
        ELSE IF SameIgnoringCase(callArgs.address_book, Gal)
        THEN /\ raised = "none"
             /\ result.kind = "client"
             /\ result.client.cls = "GlobalAddressList"
             /\ result.client.parent = "self"
             /\ result.client.main_resource = None
        ELSE raised = "RuntimeError" /\ result.kind = "none"

C8_Witness ==
    /\ lastOp = "address_book"
    /\ callArgs.address_book = <<"G", "A", "L">>
    /\ callArgs.resource = "users/x"
    /\ result.client.cls = "GlobalAddressList"

C8_WitnessRaise ==
    /\ lastOp = "address_book"
    /\ callArgs.address_book = <<"s", "h", "a", "r", "e", "d">>
    /\ raised = "RuntimeError"

\* C9: no method call, returning or raising, changes the account's protocol,
\* connection or main_resource, and a factory call that returns hands out a
\* sub-client that was not handed out before.
C9_MethodsKeepAccount ==
    [][phase = "ready" =>
          /\ account' = account
          /\ result'.kind = "client" => result'.client.id \notin returned]_vars

C9_Witness ==
    /\ Cardinality(returned) = 2
    /\ lastOp = "mailbox"
    /\ result.kind = "client"

\* C10 as stated: after a successful construction on another flow than
\* backend, main_resource is the argument when that is non-empty and the
\* protocol's default_resource otherwise, and it always equals
\* protocol.default_resource.
C10_AlwaysProtocolDefault ==
    (phase = "ready" /\ ArgFlow # "backend") =>
        /\ main_resource = (IF ArgResourceGiven THEN args.main_resource
                            ELSE protocol.default_resource)
        /\ main_resource = protocol.default_resource

\* C10 as amended: main_resource is the argument when that is non-empty and
\* the protocol's default_resource otherwise; an already-built protocol is
\* kept as passed, default_resource included.
C10_ResourceOrProtocolDefault ==
    (phase = "ready" /\ ArgFlow # "backend") =>
        /\ main_resource = (IF ArgResourceGiven THEN args.main_resource
                            ELSE protocol.default_resource)
        /\ (args.protocol.kind = "obj" /\ args.protocol.truthy) => protocol = args.protocol

C10_Witness ==
    /\ phase = "ready"
    /\ ArgFlow # "backend"
    /\ args.protocol.kind = "obj"
    /\ args.main_resource = "users/x"
    /\ main_resource = "users/x"
    /\ protocol.default_resource = "me"

====
